---------------------------- MODULE Spec2Model ----------------------------
(***************************************************************************)
(* COVID-19 Risk Assessment Tool (src/app.py): a Streamlit script.         *)
(*                                                                         *)
(* The script is run from top to bottom once at start-up and once more for *)
(* every interaction: a change of a form widget, or a click on the         *)
(* "Assess Risk" button.  A run builds input_data from the widgets'        *)
(* current values and, only when st.button returned True (the run was      *)
(* caused by the click), runs the assessment block.  What one run renders  *)
(* replaces what the previous run rendered.  The classifier is an opaque   *)
(* object: what predict and predict_proba answer is chosen by the          *)
(* environment.                                                            *)
(*                                                                         *)
(* Numbers.  A probability is k/PScale with k \in 0..PScale.  A confidence *)
(* (max(prediction_proba) * 100) is kept exactly, as the numerator c of    *)
(* c/PScale percent.  The text of f"{confidence:.1f}" is kept as the       *)
(* integer number of tenths of a percent it shows ("66.7" is 667).         *)
(***************************************************************************)
EXTENDS Integers, Sequences, FiniteSets

VARIABLES
    selections,     \* the widgets' current values (lines 42-61)
    input_data,     \* the dict built at lines 68-82, as its (key, value) pairs in order
    input_df,       \* the one-row DataFrame of line 85
    loadOutcome,    \* what joblib.load did at start-up (line 17)
    model,          \* the cached result of load_model() (line 26)
    loadNotice,     \* what load_model rendered (lines 20, 23)
    button,         \* what st.button returned in the latest run (line 106)
    rendered,       \* the elements the button's block rendered in the latest run
    calls,          \* the classifier operations the latest run attempted, in order
    predOut,        \* what predict answered in the latest run
    probaOut,       \* what predict_proba answered in the latest run
    uncaught,       \* an exception left the latest run's button block
    prevState,      \* history: the renderer's state before the latest run
    predictFailed   \* history: predict raised in some run before the latest one

vars == <<selections, input_data, input_df, loadOutcome, model, loadNotice, button,
          rendered, calls, predOut, probaOut, uncaught, prevState, predictFailed>>

-----------------------------------------------------------------------------
(* Bounds of the model. *)

\* How many widgets may differ from their default at once.
MaxChanged == 1
\* The resolution of a probability: k/PScale.
PScale == 3

-----------------------------------------------------------------------------
(* The form: lines 40-61. *)

MinAge == 0
MaxAge == 120
DefaultAge == 30

\* The ages the user enters in the model: both ends of the widget's range and its default.
AgeSamples == {MinAge, DefaultAge, MaxAge}

GenderOptions == <<"Male", "Female">>
YesNoOptions == <<"No", "Yes">>

\* The eleven Yes/No selectboxes, in the order the script creates them.
YesNoFields == <<"fever", "cough", "short_breath", "loss_of_taste_smell", "fatigue",
                 "headache", "sore_throat", "nausea", "chest_pain",
                 "diabetes", "hypertension">>

Range(s) == {s[i] : i \in 1..Len(s)}

\* A widget shows its value= argument, or its first option, until the user changes it.
Defaults ==
    [f \in {"age", "gender"} \cup Range(YesNoFields) |->
        IF f = "age" THEN DefaultAge
        ELSE IF f = "gender" THEN GenderOptions[1]
        ELSE YesNoOptions[1]]

Changed(sel) == Cardinality({f \in DOMAIN sel : sel[f] # Defaults[f]})

-----------------------------------------------------------------------------
(* The normalizer: lines 63-85. *)

yes_no_map(s) == CASE s = "Yes" -> 1 [] s = "No" -> 0

gender_map_Swapped(s) == CASE s = "Male" -> 0 [] s = "Female" -> 1

gender_map(s) == CASE s = "Male" -> 1 [] s = "Female" -> 0

\* The dict literal of lines 68-82: a Python dict keeps its keys in insertion order.
InputData(sel) ==
    << <<"age", sel["age"]>>,
       <<"gender", gender_map(sel["gender"])>>,
       <<"fever", yes_no_map(sel["fever"])>>,
       <<"cough", yes_no_map(sel["cough"])>>,
       <<"short_breath", yes_no_map(sel["short_breath"])>>,
       <<"loss_of_taste_smell", yes_no_map(sel["loss_of_taste_smell"])>>,
       <<"fatigue", yes_no_map(sel["fatigue"])>>,
       <<"headache", yes_no_map(sel["headache"])>>,
       <<"sore_throat", yes_no_map(sel["sore_throat"])>>,
       <<"nausea", yes_no_map(sel["nausea"])>>,
       <<"chest_pain", yes_no_map(sel["chest_pain"])>>,
       <<"diabetes", yes_no_map(sel["diabetes"])>>,
       <<"hypertension", yes_no_map(sel["hypertension"])>> >>

\* pd.DataFrame([input_data]): the keys become the columns, the values the single row.
InputDf(data) ==
    [columns |-> [i \in 1..Len(data) |-> data[i][1]],
     rows    |-> << [i \in 1..Len(data) |-> data[i][2]] >>]

-----------------------------------------------------------------------------
(* Loading the classifier: lines 14-26. *)

LoadOutcomes == {"ok", "FileNotFoundError", "Exception"}

Element(w, t) == [widget |-> w, text |-> t, arg |-> <<>>]

load_model(outcome) ==
    CASE outcome = "ok" ->
            [model |-> "loaded", notice |-> <<>>, uncaught |-> FALSE]
      [] outcome = "FileNotFoundError" ->
            [model |-> "None",
             notice |-> <<Element("error", "Model file 'final_model.pkl' not found")>>,
             uncaught |-> FALSE]
      [] OTHER ->
            [model |-> "None",
             notice |-> <<Element("error", "Error loading model")>>,
             uncaught |-> FALSE]

-----------------------------------------------------------------------------
(* The classifier's answers: chosen by the environment. *)

\* The labels predict(input_df)[0] may be: the two classes, and a value outside them.
Labels == {0, 1, 2}

NoResponse == [kind |-> "none", label |-> 0]

\* predict(input_df)[0] raises, or is a label.
PredictOutcomes ==
    {[kind |-> "raise", label |-> 0]} \cup {[kind |-> "label", label |-> l] : l \in Labels}

RECURSIVE Sum(_)
Sum(s) == IF s = <<>> THEN 0 ELSE s[1] + Sum(Tail(s))

\* Line 179: "Binary classification": the classifier knows at most two classes.
NumClasses == 2

\* A row of class probabilities: one number in [0,1] for each class the classifier
\* knows, adding up to 1; or no class at all.
ProbRows ==
    {s \in UNION {[1..n -> 0..PScale] : n \in 0..NumClasses} :
        Len(s) = 0 \/ Sum(s) = PScale}

NoProba == [kind |-> "none", probs |-> <<>>]

\* predict_proba(input_df)[0]:
\*   "raise":  the call raises, or the classifier has no predict_proba;
\*   "probs":  a flat row of class probabilities;
\*   "nested": a value max() and * 100 accept and format(.., ".1f") rejects: the
\*             two-dimensional row of a multi-output classifier (max of its single
\*             row is an ndarray), or a row of strings.
ProbaOutcomes ==
    {[kind |-> "raise", probs |-> <<>>], [kind |-> "nested", probs |-> <<>>]}
        \cup {[kind |-> "probs", probs |-> s] : s \in ProbRows}

-----------------------------------------------------------------------------
(* The assessment block: lines 106-158. *)

Percent == 100

Divider == Element("divider", "")
HighRiskHeadline == Element("error", "High Risk Assessment")
HighRiskAdvice == Element("markdown", "elevated risk: isolate, get tested, emergency symptoms")
LowRiskHeadline == Element("success", "Low Risk Assessment")
LowRiskAdvice == Element("markdown", "risk appears low: monitor, hygiene, stay home")
PredictionErrorNotice == Element("error", "Error making prediction")
CompatibilityHint == Element("info", "Please check that your model is compatible")
ModelNotLoadedNotice == Element("error", "Model not loaded. Cannot make predictions.")
ConfidenceNote(tenths) == [widget |-> "info", text |-> "Model confidence", arg |-> <<tenths>>]

\* Python's max() of a non-empty sequence: the first of the greatest elements.
RECURSIVE MaxFrom(_, _)
MaxFrom(best, s) ==
    IF s = <<>> THEN best
    ELSE MaxFrom(IF s[1] > best THEN s[1] ELSE best, Tail(s))

Max(s) == MaxFrom(s[1], Tail(s))

None == [kind |-> "None", value |-> 0]

\* Lines 113-117: the inner try. Anything raised inside it (predict_proba itself,
\* max() of an empty row) is caught by the bare except.
Confidence_Zero(q) ==
    CASE q.kind = "probs" /\ q.probs # <<>> ->
            [kind |-> "number", value |-> Max(q.probs) * Percent]
      [] q.kind = "nested" -> [kind |-> "array", value |-> 0]
      [] OTHER -> [kind |-> "number", value |-> 0]

Confidence(q) ==
    CASE q.kind = "probs" /\ q.probs # <<>> ->
            [kind |-> "number", value |-> Max(q.probs) * Percent]
      [] q.kind = "nested" -> [kind |-> "array", value |-> 0]
      [] OTHER -> None

\* f"{x:.1f}" of x = c/PScale: the nearest tenth, a tie going to the even one.
FormatOneDecimal_Truncate(c) == (c * 10) \div PScale

FormatOneDecimal(c) ==
    LET q == (c * 10) \div PScale
        r == (c * 10) % PScale
    IN  IF 2 * r < PScale THEN q
        ELSE IF 2 * r > PScale THEN q + 1
        ELSE IF q % 2 = 0 THEN q ELSE q + 1

\* Lines 122-149: if prediction == 1 ... else ...
RiskBlock_Both(prediction) ==
    (IF prediction = 1 THEN <<HighRiskHeadline, HighRiskAdvice>> ELSE <<>>)
        \o <<LowRiskHeadline, LowRiskAdvice>>

RiskBlock_AtLeastOne(prediction) ==
    IF prediction >= 1
    THEN <<HighRiskHeadline, HighRiskAdvice>>
    ELSE <<LowRiskHeadline, LowRiskAdvice>>

RiskBlock(prediction) ==
    IF prediction = 1
    THEN <<HighRiskHeadline, HighRiskAdvice>>
    ELSE <<LowRiskHeadline, LowRiskAdvice>>

\* Lines 151-152: the confidence annotation. Formatting a value that is not a number
\* raises, after the risk block was rendered.
ConfidenceDisplay(confidence) ==
    CASE confidence.kind = "None" -> [rendered |-> <<>>, raised |-> FALSE]
      [] confidence.kind = "number" ->
            [rendered |-> <<ConfidenceNote(FormatOneDecimal(confidence.value))>>,
             raised |-> FALSE]
      [] OTHER -> [rendered |-> <<>>, raised |-> TRUE]

\* Lines 154-156: the outer except.
PredictionFailure == <<PredictionErrorNotice, CompatibilityHint>>

\* Lines 108-156: the outer try and its except. Elements rendered before an
\* exception stay rendered.
PredictionBlock_NoExcept(p, q) ==
    IF p.kind # "label"
    THEN [rendered |-> <<>>, calls |-> <<"predict">>, uncaught |-> TRUE]
    ELSE LET shown == <<Divider>> \o RiskBlock(p.label)
             note  == ConfidenceDisplay(Confidence(q))
         IN  [rendered |-> shown \o note.rendered,
              calls |-> <<"predict", "predict_proba">>, uncaught |-> note.raised]

PredictionBlock_Retry(p, q) ==
    IF p.kind # "label"
    THEN [rendered |-> PredictionFailure, calls |-> <<"predict", "predict">>,
          uncaught |-> FALSE]
    ELSE LET shown == <<Divider>> \o RiskBlock(p.label)
             note  == ConfidenceDisplay(Confidence(q))
         IN  [rendered |-> shown \o (IF note.raised THEN PredictionFailure
                                     ELSE note.rendered),
              calls |-> <<"predict", "predict_proba">>, uncaught |-> FALSE]

PredictionBlock(p, q) ==
    IF p.kind # "label"
    THEN [rendered |-> PredictionFailure, calls |-> <<"predict">>, uncaught |-> FALSE]
    ELSE LET shown == <<Divider>> \o RiskBlock(p.label)
             note  == ConfidenceDisplay(Confidence(q))
         IN  [rendered |-> shown \o (IF note.raised THEN PredictionFailure
                                     ELSE note.rendered),
              calls |-> <<"predict", "predict_proba">>, uncaught |-> FALSE]

\* Lines 107 and 157-158: if model is not None ... else ...
AssessRisk_NoNoneCheck(m, p, q) ==
    PredictionBlock(IF m = "None" THEN [kind |-> "raise", label |-> 0] ELSE p, q)

AssessRisk(m, p, q) ==
    IF m # "None"
    THEN PredictionBlock(p, q)
    ELSE [rendered |-> <<ModelNotLoadedNotice>>, calls |-> <<>>, uncaught |-> FALSE]

\* Line 106: if st.button(...). The block runs only in the run the click caused.
ButtonBlock_Always(clicked, m, p, q) == AssessRisk(m, p, q)

ButtonBlock(clicked, m, p, q) ==
    IF clicked
    THEN AssessRisk(m, p, q)
    ELSE [rendered |-> <<>>, calls |-> <<>>, uncaught |-> FALSE]

HasRiskBlock(r) == HighRiskHeadline \in Range(r) \/ LowRiskHeadline \in Range(r)

\* Section 4.2 of the design: the renderer is in "result shown" while a verdict is
\* on the page.
RendererState == IF HasRiskBlock(rendered) THEN "result shown" ELSE "awaiting input"

-----------------------------------------------------------------------------
(* The state after start-up, and one action per interaction. *)

\* The first run of the script: load_model() runs once and its result is cached
\* (st.cache_resource); the widgets show their defaults; the button was not clicked.
Init ==
    /\ loadOutcome \in LoadOutcomes
    /\ model = load_model(loadOutcome).model
    /\ loadNotice = load_model(loadOutcome).notice
    /\ selections = Defaults
    /\ input_data = InputData(Defaults)
    /\ input_df = InputDf(InputData(Defaults))
    /\ button = FALSE
    /\ rendered = <<>>
    /\ calls = <<>>
    /\ predOut = NoResponse
    /\ probaOut = NoProba
    /\ uncaught = load_model(loadOutcome).uncaught
    /\ prevState = "awaiting input"
    /\ predictFailed = FALSE

\* One run of the script (lines 26-158) with the widgets at sel: model is the cached
\* handle, input_data and input_df are rebuilt, and the button's block runs if the
\* click caused the run, with p and q what the classifier answers when asked.
Rerun(sel, clicked, p, q) ==
    LET r == ButtonBlock(clicked, model, p, q)
    IN  /\ button' = clicked
        /\ selections' = sel
        /\ input_data' = InputData(sel)
        /\ input_df' = InputDf(InputData(sel))
        /\ rendered' = r.rendered
        /\ calls' = r.calls
        /\ uncaught' = r.uncaught
        /\ predOut' = IF "predict" \in Range(r.calls) THEN p ELSE NoResponse
        /\ probaOut' = IF "predict_proba" \in Range(r.calls) THEN q ELSE NoProba
        /\ prevState' = RendererState
        /\ predictFailed' = (predictFailed \/ predOut.kind = "raise")
        /\ UNCHANGED <<loadOutcome, model, loadNotice>>

\* The widgets' values after the user set widget f to v.
Set(f, v) == [selections EXCEPT ![f] = v]

\* Streamlit reruns the script only when the value changed.
CanChange(f, v) == v # selections[f] /\ Changed(Set(f, v)) <= MaxChanged

\* Line 42: st.number_input("Age", min_value=0, max_value=120, value=30): the user
\* enters another age; the script reruns and st.button returns False.
SetAge ==
    \E a \in AgeSamples :
        /\ CanChange("age", a)
        /\ Rerun(Set("age", a), FALSE, NoResponse, NoProba)

\* Line 43: st.selectbox("Gender", ["Male", "Female"]).
SetGender ==
    \E g \in Range(GenderOptions) :
        /\ CanChange("gender", g)
        /\ Rerun(Set("gender", g), FALSE, NoResponse, NoProba)

\* Lines 46-61: the eleven st.selectbox(.., ["No", "Yes"]).
SetYesNo ==
    \E f \in Range(YesNoFields), v \in Range(YesNoOptions) :
        /\ CanChange(f, v)
        /\ Rerun(Set(f, v), FALSE, NoResponse, NoProba)

\* Line 106: the user clicks "Assess Risk": the script reruns and st.button returns
\* True. The classifier answers the calls the run makes: none without a handle, and
\* predict_proba only after predict returned.
ClickAssessRisk ==
    \E p \in IF model = "None" THEN {NoResponse} ELSE PredictOutcomes :
        \E q \in IF p.kind = "label" THEN ProbaOutcomes ELSE {NoProba} :
            /\ button' = TRUE
            /\ Rerun(selections, TRUE, p, q)

Next == SetAge \/ SetGender \/ SetYesNo \/ ClickAssessRisk

Spec == Init /\ [][Next]_vars

-----------------------------------------------------------------------------
(* What the claims speak of. *)

\* Section 3 of the design: the thirteen fields of the Feature Record, in order.
DocumentedOrder ==
    <<"age", "gender", "fever", "cough", "short_breath", "loss_of_taste_smell",
      "fatigue", "headache", "sore_throat", "nausea", "chest_pain", "diabetes",
      "hypertension">>

Loaded == model # "None"

HasConfidence(r) == \E i \in DOMAIN r : r[i].text = "Model confidence"

HasErrorNotice(r) ==
    \E i \in DOMAIN r :
        r[i] \in {PredictionErrorNotice, CompatibilityHint, ModelNotLoadedNotice}

\* The elements of r that belong to a verdict: a headline or its advice.
IsVerdictElement(e) ==
    \/ e.widget \in {"success", "markdown"}
    \/ e.widget = "error" /\ e \notin {PredictionErrorNotice, ModelNotLoadedNotice}

Verdict(r) == SelectSeq(r, IsVerdictElement)

HeadlineFor(label) == IF label = 1 THEN HighRiskHeadline ELSE LowRiskHeadline
AdviceFor(label) == IF label = 1 THEN HighRiskAdvice ELSE LowRiskAdvice

Abs(x) == IF x < 0 THEN -x ELSE x

-----------------------------------------------------------------------------
(* C1 *)

\* C1: after any interactions, the Feature Record has exactly the 13 documented
\* fields in the documented order; age is the entered age (in 0..120), gender is 1
\* for Male and 0 for Female, every other field is 1 for Yes and 0 for No. The record
\* is fixed by the current selections alone, so equal selections give equal records.
C1_FeatureRecord ==
    /\ Len(input_data) = Len(DocumentedOrder)
    /\ Len(DocumentedOrder) = 13
    /\ \A i \in 1..Len(input_data) : input_data[i][1] = DocumentedOrder[i]
    /\ selections["age"] \in MinAge..MaxAge
    /\ input_data[1][2] = selections["age"]
    /\ selections["gender"] \in {"Male", "Female"}
    /\ input_data[2][2] = (IF selections["gender"] = "Male" THEN 1 ELSE 0)
    /\ \A i \in 3..Len(input_data) :
          /\ selections[DocumentedOrder[i]] \in {"Yes", "No"}
          /\ input_data[i][2] = (IF selections[DocumentedOrder[i]] = "Yes" THEN 1 ELSE 0)
    /\ input_df.columns = DocumentedOrder
    /\ Len(input_df.rows) = 1

\* A trigger after the user changed the gender to Female: the record holds gender 0,
\* the default age and eleven zeros.
C1_Witness ==
    /\ button
    /\ selections["gender"] = "Female"
    /\ input_data =
         << <<"age", 30>>, <<"gender", 0>>, <<"fever", 0>>, <<"cough", 0>>,
            <<"short_breath", 0>>, <<"loss_of_taste_smell", 0>>, <<"fatigue", 0>>,
            <<"headache", 0>>, <<"sore_throat", 0>>, <<"nausea", 0>>,
            <<"chest_pain", 0>>, <<"diabetes", 0>>, <<"hypertension", 0>> >>

-----------------------------------------------------------------------------
(* C2 *)

\* C2: on a trigger with a loaded model where predict returned a label, exactly one
\* advisory block is rendered, the high-risk block for label 1 and the low-risk block
\* for label 0; no run renders both blocks or another kind of verdict.
C2_ExactlyOneBlock ==
    /\ (button /\ Loaded /\ predOut.kind = "label") =>
          /\ Len(Verdict(rendered)) = 2
          /\ predOut.label = 1 => Verdict(rendered) = <<HighRiskHeadline, HighRiskAdvice>>
          /\ predOut.label = 0 => Verdict(rendered) = <<LowRiskHeadline, LowRiskAdvice>>
    /\ Verdict(rendered) \in {<<>>, <<HighRiskHeadline, HighRiskAdvice>>,
                              <<LowRiskHeadline, LowRiskAdvice>>}

C2_Witness ==
    /\ button /\ Loaded /\ predOut = [kind |-> "label", label |-> 1]
    /\ Verdict(rendered) = <<HighRiskHeadline, HighRiskAdvice>>
    /\ probaOut.kind = "probs"

-----------------------------------------------------------------------------
(* C3 *)

\* C3: when loading the classifier failed at start-up, the failure was caught and
\* reported, the handle stays None, and every run, after any input changes and
\* triggers, calls neither predict nor predict_proba and renders no risk block; a
\* triggered run renders exactly the "model not loaded" notice.
C3_LoadFailure ==
    loadOutcome # "ok" =>
        /\ model = "None"
        /\ loadNotice # <<>>
        /\ ~uncaught
        /\ calls = <<>>
        /\ ~HasRiskBlock(rendered)
        /\ button => rendered = <<ModelNotLoadedNotice>>

C3_Witness ==
    /\ loadOutcome = "Exception"
    /\ Changed(selections) > 0
    /\ button
    /\ rendered = <<ModelNotLoadedNotice>>

-----------------------------------------------------------------------------
(* C4 *)

\* C4: on a trigger with a loaded model on which predict raised, the prediction-error
\* notice is rendered, no risk block and no confidence annotation is, and no
\* exception leaves the block.
C4_PredictRaises ==
    (button /\ Loaded /\ predOut.kind = "raise") =>
        /\ PredictionErrorNotice \in Range(rendered)
        /\ ~HasRiskBlock(rendered)
        /\ Verdict(rendered) = <<>>
        /\ ~HasConfidence(rendered)
        /\ ~uncaught

C4_Witness ==
    /\ button /\ Loaded /\ predOut.kind = "raise"
    /\ rendered = <<PredictionErrorNotice, CompatibilityHint>>

-----------------------------------------------------------------------------
(* C5 *)

\* C5: on a trigger where predict returned a label and predict_proba raised (or is
\* missing), the risk block of the label is rendered, with no confidence annotation
\* and no error notice; a confidence annotation is rendered only in a run where
\* predict_proba returned a row.
C5_SilentFallback ==
    /\ (button /\ Loaded /\ predOut.kind = "label" /\ probaOut.kind = "raise") =>
          /\ rendered = <<Divider, HeadlineFor(predOut.label), AdviceFor(predOut.label)>>
          /\ ~HasConfidence(rendered)
          /\ ~HasErrorNotice(rendered)
          /\ ~uncaught
    /\ HasConfidence(rendered) =>
          button /\ probaOut.kind = "probs" /\ "predict_proba" \in Range(calls)

C5_Witness ==
    /\ button /\ Loaded /\ predOut.kind = "label" /\ probaOut.kind = "raise"
    /\ HasRiskBlock(rendered)
    /\ Len(rendered) = 3

-----------------------------------------------------------------------------
(* C6 *)

\* C6: a rendered confidence annotation shows a value in [0,100] that is the greatest
\* probability of the row predict_proba returned, times 100, rounded to the nearest
\* tenth. (t is in tenths of a percent; a probability p stands for p/PScale.)
C6_Confidence ==
    \A i \in DOMAIN rendered :
        rendered[i].text = "Model confidence" =>
            LET t == rendered[i].arg[1]
                row == probaOut.probs
            IN  /\ probaOut.kind = "probs"
                /\ row # <<>>
                /\ t \in 0..(Percent * 10)
                /\ \E j \in DOMAIN row :
                      /\ \A k \in DOMAIN row : row[k] <= row[j]
                      /\ 2 * Abs(t * PScale - row[j] * Percent * 10) <= PScale

\* A confidence that had to be rounded, from a row whose greatest element is not
\* its first.
C6_Witness ==
    \E i \in DOMAIN rendered :
        /\ rendered[i].text = "Model confidence"
        /\ Len(probaOut.probs) = 2
        /\ probaOut.probs[1] < probaOut.probs[2]
        /\ rendered[i].arg[1] * PScale # probaOut.probs[2] * Percent * 10

-----------------------------------------------------------------------------
(* C7 *)

\* C7 as stated: the renderer has two states, awaiting input and result shown; no
\* risk block is rendered and the classifier is not called without a trigger; and a
\* shown result stays shown until the next trigger: a run that no trigger caused
\* (an input change) leaves result shown in place.
C7_Original ==
    /\ RendererState \in {"awaiting input", "result shown"}
    /\ (HasRiskBlock(rendered) \/ calls # <<>>) => button
    /\ (prevState = "result shown" /\ ~button) => RendererState = "result shown"

\* C7 as amended: the renderer has two states, awaiting input and result shown;
\* result shown is entered only by a trigger: no risk block is rendered and the
\* classifier is not called without one; a shown result stays shown only until the
\* next run of the script: a run caused by an input change renders nothing of the
\* assessment and leaves the renderer in awaiting input.
C7_Amended ==
    /\ RendererState \in {"awaiting input", "result shown"}
    /\ (HasRiskBlock(rendered) \/ calls # <<>>) => button
    /\ ~button => (rendered = <<>> /\ RendererState = "awaiting input")

\* An input change right after a result was shown: the result is gone.
C7_Witness ==
    /\ prevState = "result shown"
    /\ ~button
    /\ Changed(selections) > 0
    /\ RendererState = "awaiting input"

-----------------------------------------------------------------------------
(* C8 *)

\* C8: a trigger on which predict raised ends in awaiting input after a single call
\* of predict (no retry) and leaves the handle loaded; on any later trigger on which
\* predict returns a label, the divider and the risk block of that label are
\* rendered as after no failure.
C8_RetryAfterFailure ==
    /\ (button /\ Loaded /\ predOut.kind = "raise") =>
          /\ RendererState = "awaiting input"
          /\ calls = <<"predict">>
    /\ loadOutcome = "ok" => Loaded
    /\ (predictFailed /\ button /\ Loaded /\ predOut.kind = "label") =>
          /\ Len(rendered) >= 3
          /\ SubSeq(rendered, 1, 3) =
                <<Divider, HeadlineFor(predOut.label), AdviceFor(predOut.label)>>
          /\ RendererState = "result shown"

C8_Witness ==
    /\ predictFailed
    /\ button /\ Loaded /\ predOut.kind = "label"
    /\ RendererState = "result shown"
    /\ prevState = "awaiting input"

-----------------------------------------------------------------------------
(* C9 *)

\* C9: no run renders the prediction-failure notice together with a risk block or a
\* confidence annotation, whichever step of the guarded block failed.
C9_NoPartialResult ==
    ~(/\ PredictionErrorNotice \in Range(rendered)
      /\ (HasRiskBlock(rendered) \/ HasConfidence(rendered)))

-----------------------------------------------------------------------------
(* C10 *)

\* C10: on a trigger where predict returned a label, the high-risk block is rendered
\* if and only if the label equals 1; every other label, also one outside {0,1},
\* renders the low-risk block.
C10_OnlyOneIsHigh ==
    (button /\ Loaded /\ predOut.kind = "label") =>
        /\ HighRiskHeadline \in Range(rendered) <=> predOut.label = 1
        /\ predOut.label # 1 =>
              Verdict(rendered) = <<LowRiskHeadline, LowRiskAdvice>>

C10_Witness ==
    /\ button /\ Loaded /\ predOut.kind = "label"
    /\ predOut.label \notin {0, 1}
    /\ Verdict(rendered) = <<LowRiskHeadline, LowRiskAdvice>>

=============================================================================
